---- MODULE Spec2Model ----
(***************************************************************************)
(* A model of sync_mathlib_data.py: the two-way synchronisation between    *)
(* the per-theorem files of the _thm directory and mathlib's 1000.yaml.    *)
(*                                                                         *)
(* Strings are sequences: a wikidata identifier or a theorem key is a      *)
(* sequence of one-character strings, every other string is a sequence of  *)
(* words, so that str.split(" and ") and " and ".join are computed and not *)
(* assumed.  The script is modelled as run from the command line (the      *)
(* module-level `import sys` of the __main__ block has been executed).     *)
(***************************************************************************)
EXTENDS Integers, Sequences, FiniteSets, TLC

VARIABLES
    wdInput,    \* is_valid_wikidata: the string under test
    wdResult,   \* is_valid_wikidata: "pending", or the value returned
    thm,        \* the _thm directory: key -> <<>> (no file) or <<file>>
    input,      \* downstream_yaml_data: the sequence of [key, entry] read from input_file
    pc,         \* where the running command is
    i,          \* the position of the loop of line 331 in input
    candidate,  \* new_entry_typed as the latest iteration left it: <<>> is None
    report,     \* what the run has printed: one record per entry gone through
    projecting, \* the entry parsed at line 311 and passed to _write_entry_for_downstream:
                \* <<>> (None) or <<the TheoremEntry>>
    projection, \* _write_entry_for_downstream: <<>> or <<what the call came to>>
    generated   \* generated-1000.yaml: the documents written, in order

wdVars == <<wdInput, wdResult>>
projVars == <<projecting, projection>>
vars == <<wdInput, wdResult, thm, input, pc, i, candidate, report, projecting, projection,
          generated>>

----------------------------------------------------------------------------
(* Bounds of the model *)

\* Longest string handed to is_valid_wikidata
MaxWdLen == 4
\* Most Lean entries of a theorem handed to _write_entry_for_downstream
MaxLean == 3
\* Most files of the _thm directory when the downstream file is generated
MaxFiles == 3
\* Most entries of a downstream file
MaxKeys == 2
\* Most runs of --upstream over the same downstream file
MaxRuns == 2

----------------------------------------------------------------------------
(* Generic helpers *)

\* All sequences over S of length at most n
SeqsUpTo(S, n) == UNION {[1..m -> S] : m \in 0..n}

RECURSIVE Flatten(_)
\* Concatenation of a sequence of sequences
Flatten(ss) == IF ss = <<>> THEN <<>> ELSE Head(ss) \o Flatten(Tail(ss))

----------------------------------------------------------------------------
(* is_valid_wikidata and Python's int() *)

Digits == {"0", "1", "2", "3", "4", "5", "6", "7", "8", "9"}
Whitespace == {" "}

RECURSIVE LStrip(_)
\* str.lstrip(): what int() does to leading whitespace
LStrip(s) == IF s # <<>> /\ Head(s) \in Whitespace THEN LStrip(Tail(s)) ELSE s

RECURSIVE RStrip(_)
\* str.rstrip(): what int() does to trailing whitespace
RStrip(s) ==
    IF s # <<>> /\ s[Len(s)] \in Whitespace THEN RStrip(SubSeq(s, 1, Len(s) - 1)) ELSE s

\* The digit part of a Python integer literal in base 10: digits, with single
\* underscores allowed between two digits
IsDigitPart(r) ==
    /\ Len(r) >= 1
    /\ \A j \in 1..Len(r) :
          \/ r[j] \in Digits
          \/ /\ r[j] = "_"
             /\ j > 1 /\ j < Len(r)
             /\ r[j - 1] \in Digits /\ r[j + 1] \in Digits

\* s without an optional leading sign
Unsigned(s) == IF s # <<>> /\ Head(s) \in {"+", "-"} THEN Tail(s) ELSE s

\* Whether int(s) returns (TRUE) or raises ValueError (FALSE)
IntParses(s) == IsDigitPart(Unsigned(RStrip(LStrip(s))))

DigitValue(c) ==
    CASE c = "0" -> 0 [] c = "1" -> 1 [] c = "2" -> 2 [] c = "3" -> 3 [] c = "4" -> 4
      [] c = "5" -> 5 [] c = "6" -> 6 [] c = "7" -> 7 [] c = "8" -> 8 [] c = "9" -> 9

RECURSIVE DigitPartValue(_, _)
\* The value of a digit part, read left to right with accumulator acc
DigitPartValue(r, acc) ==
    IF r = <<>> THEN acc
    ELSE IF Head(r) = "_" THEN DigitPartValue(Tail(r), acc)
    ELSE DigitPartValue(Tail(r), 10 * acc + DigitValue(Head(r)))

\* int(s), for a string s that int() parses
IntOf(s) ==
    LET t == RStrip(LStrip(s))
        v == DigitPartValue(Unsigned(t), 0)
    IN  IF t # <<>> /\ Head(t) = "-" THEN 0 - v ELSE v

\* str.startswith("Q")
StartsWithQ(s) == s # <<>> /\ Head(s) = "Q"

\* str.removeprefix("Q")
RemovePrefixQ(s) == IF StartsWithQ(s) THEN Tail(s) ELSE s

\* is_valid_wikidata(input)
is_valid_wikidata(s) == StartsWithQ(s) /\ IntParses(RemovePrefixQ(s))

----------------------------------------------------------------------------
(* Python values.  A value is a record [k, v]: k is the type and v a       *)
(* sequence of strings, so that any two values can be compared.  A string  *)
(* is a sequence of words: "" is <<>>, "A and B" is <<"A", "and", "B">>.   *)

\* None
None == [k |-> "None", v |-> <<>>]
\* The string s
Str(s) == [k |-> "str", v |-> <<s>>]
\* The list whose elements are es
List(es) == [k |-> "list", v |-> es]
\* A key that a dict does not hold
Absent == [k |-> "absent", v |-> <<>>]

\* key in dict
Has(p) == p.k # "absent"
\* dict.get(key)
Get(p) == IF Has(p) THEN p ELSE None
\* bool(p): None, "" and [] are false
Truthy(p) == (p.k = "str" /\ p.v[1] # <<>>) \/ (p.k = "list" /\ p.v # <<>>)

RECURSIVE JoinWith(_, _)
\* sep.join(ss)
JoinWith(ss, sep) ==
    IF ss = <<>> THEN <<>>
    ELSE IF Len(ss) = 1 THEN ss[1]
    ELSE ss[1] \o <<sep>> \o JoinWith(Tail(ss), sep)

RECURSIVE SplitAcc(_, _, _, _)
\* s.split(sep), with the current piece cur and the pieces out found so far
SplitAcc(s, sep, cur, out) ==
    IF s = <<>> THEN Append(out, cur)
    ELSE IF Head(s) = sep THEN SplitAcc(Tail(s), sep, <<>>, Append(out, cur))
    ELSE SplitAcc(Tail(s), sep, Append(cur, Head(s)), out)

\* s.split(" and ")
SplitAnd(s) == SplitAcc(s, "and", <<>>, <<>>)

\* The value p as an element of a list: a string is itself, a list is
\* written out between brackets and None by name (no string of the model
\* holds the words "[", "]", "," or "None")
ElemOf(p) ==
    CASE p.k = "str" -> p.v[1]
      [] p.k = "list" -> <<"[">> \o JoinWith(p.v, ",") \o <<"]">>
      [] OTHER -> <<"None">>

\* [p]
Singleton(p) == List(<<ElemOf(p)>>)

----------------------------------------------------------------------------
(* Enum codecs *)

ProofAssistant == {"Isabelle", "HolLight", "Rocq", "Lean", "Metamath", "Mizar"}

\* FormalizationStatus.tryFrom_str: "None" for an unknown code
Status_tryFrom_str(code) ==
    CASE code = "formalized" -> "FullProof"
      [] code = "statement" -> "Statement"
      [] OTHER -> "None"

\* FormalizationStatus.as_str
Status_as_str(status) == IF status = "FullProof" THEN "formalized" ELSE "statement"

\* Library.tryFrom_str: "None" for an unknown code
Library_tryFrom_str(code) ==
    CASE code = "S" -> "StandardLibrary"
      [] code = "L" -> "MainLibrary"
      [] code = "X" -> "External"
      [] OTHER -> "None"

\* Library.as_str
Library_as_str(library) ==
    CASE library = "StandardLibrary" -> "S"
      [] library = "MainLibrary" -> "L"
      [] OTHER -> "X"

----------------------------------------------------------------------------
(* The record parser.  An optional result is a sequence: <<>> is None and  *)
(* <<x>> is x.  A formalisation sub-document is a record with the fields   *)
(* status, library (codes), url, authors, identifiers, date, comment (a    *)
(* key it does not hold is None, as dict.get reads it).                    *)

\* FormalisationEntry(status, library, url, authors, identifiers, date, comment)
FormalisationEntry(status, library, url, authors, identifiers, date, comment) ==
    [status |-> status, library |-> library, url |-> url, authors |-> authors,
     identifiers |-> identifiers, date |-> date, comment |-> comment]

\* A plausible bug: an unknown library code let through
parse_formalization_entry_lax(entry) ==
    LET status == Status_tryFrom_str(entry.status)
        library == Library_tryFrom_str(entry.library)
    IN  IF status = "None" THEN <<>>
        ELSE <<FormalisationEntry(status, library, entry.url, entry.authors,
                                  entry.identifiers, entry.date, entry.comment)>>

\* parse_formalization_entry(entry)
parse_formalization_entry(entry) ==
    LET status == Status_tryFrom_str(entry.status)
        library == Library_tryFrom_str(entry.library)
    IN  IF status = "None" \/ library = "None" THEN <<>>
        ELSE <<FormalisationEntry(status, library, entry.url, entry.authors,
                                  entry.identifiers, entry.date, entry.comment)>>

\* The yaml key of each proof assistant in a per-theorem file
RawKey(pa) ==
    CASE pa = "Isabelle" -> "isabelle" [] pa = "HolLight" -> "hol_light"
      [] pa = "Rocq" -> "rocq" [] pa = "Lean" -> "lean"
      [] pa = "Metamath" -> "metamath" [] pa = "Mizar" -> "mizar"

\* The value of an assistant's key in a per-theorem file: the key is
\* missing, or holds a list of sub-documents
RawAbsent == [k |-> "absent", v |-> <<>>]
RawList(es) == [k |-> "list", v |-> es]

\* `if raw:` at line 195
RawTruthy(raw) == raw.k = "list" /\ raw.v # <<>>

\* [parse_formalization_entry(entry) for entry in raw]
ParseAll(raw) == [j \in 1..Len(raw.v) |-> parse_formalization_entry(raw.v[j])]

\* formalisations[pa] of lines 193-201, when no entry of raw is rejected
FormalisationsOf(raw) ==
    IF RawTruthy(raw) THEN [j \in 1..Len(raw.v) |-> ParseAll(raw)[j][1]] ELSE <<>>

\* `None in entries` at line 197
Rejected(raw) == RawTruthy(raw) /\ \E j \in 1..Len(raw.v) : ParseAll(raw)[j] = <<>>

\* _parse_theorem_entry(contents), for the document doc that the framed lines
\* hold: doc.forms maps each assistant's yaml key to RawAbsent or a RawList
_parse_theorem_entry(doc) ==
    IF ~is_valid_wikidata(doc.wikidata) THEN <<>>
    ELSE IF \E pa \in ProofAssistant : Rejected(doc.forms[RawKey(pa)]) THEN <<>>
    ELSE <<[wikidata |-> doc.wikidata,
            id_suffix |-> doc.id_suffix,
            msc_classification |-> doc.msc_classification,
            wikipedia_links |-> doc.wikipedia_links,
            formalisations |->
                [pa \in ProofAssistant |-> FormalisationsOf(doc.forms[RawKey(pa)])]]>>

----------------------------------------------------------------------------
(* update_data_from_downstream_yaml: one entry of the downstream file.     *)
(* A downstream entry is a record with the fields statement, decl, decls,  *)
(* url, authors, date, comment, each Absent or the value the key holds.    *)

\* The theorem that line 374 skips
SkipKey == <<"Q", "5", "1", "3", "0", "2", "8">>

\* f"https://leanprover-community.github.io/1000.html#{id_with_suffix}"
CanonicalUrl(key) == Str(<<"https://leanprover-community.github.io/1000.html#">> \o key)

\* A plausible bug: `url` tested before `decl`
Trigger_url_first(entry) ==
    IF Has(entry.statement) THEN "statement"
    ELSE IF Has(entry.url) THEN "url"
    ELSE IF Has(entry.decl) \/ Has(entry.decls) THEN "decl"
    ELSE "none"

\* Which branch of lines 337-354 is taken
Trigger(entry) ==
    IF Has(entry.statement) THEN "statement"
    ELSE IF Has(entry.decl) \/ Has(entry.decls) THEN "decl"
    ELSE IF Has(entry.url) THEN "url"
    ELSE "none"

\* status of lines 338, 345, 352
TriggerStatus(entry) == IF Trigger(entry) = "statement" THEN "Statement" ELSE "FullProof"

\* library of lines 338, 345, 352
TriggerLibrary(entry) == IF Trigger(entry) = "url" THEN "External" ELSE "MainLibrary"

\* new_entry.get('identifiers') after lines 341, 348-349
NewIdentifiers(entry) ==
    CASE Trigger(entry) = "statement" -> Singleton(entry.statement)
      [] Trigger(entry) = "decl" ->
            LET decl == IF Truthy(Get(entry.decls)) THEN Get(entry.decls)
                        ELSE Singleton(Get(entry.decl))
            IN  IF decl = Singleton(None) THEN None ELSE decl
      [] OTHER -> None

\* authors of lines 364-366 (every authors value of the model is a string)
SplitAuthors(entry) ==
    LET authors == Get(entry.authors)
    IN  IF Truthy(authors) THEN List(SplitAnd(authors.v[1])) ELSE authors

\* new_entry_typed of lines 367-370: <<>> is None
new_entry_typed(entry) ==
    IF Trigger(entry) = "none" THEN <<>>
    ELSE <<FormalisationEntry(TriggerStatus(entry), TriggerLibrary(entry), Get(entry.url),
                              SplitAuthors(entry), NewIdentifiers(entry),
                              Get(entry.date), Get(entry.comment))>>

\* compare(downstream, upstream, field) of lines 402-405: the field's name
\* stands for the message, <<>> for ""
compare(downstream, upstream, field) == IF downstream # upstream THEN <<field>> ELSE <<>>

\* upstream_entry[0].url == (None, expected) at line 412: a str or None is
\* never equal to a tuple
UrlEqualsPair(url, expected) == FALSE

\* The tuple that line 412 builds and tests
UrlTuple(downstream, upstream, key) ==
    <<downstream.url, UrlEqualsPair(upstream.url, CanonicalUrl(key))>>

\* bool(t) of a tuple
TupleTruthy(t) == Len(t) > 0

\* real_messages of lines 406-418
real_messages(entry, key, downstream, upstream) ==
    compare(downstream.status, upstream.status, "status")
    \o compare(downstream.library, upstream.library, "library")
    \o (IF (Has(entry.decl) \/ Has(entry.decls))
           /\ ~TupleTruthy(UrlTuple(downstream, upstream, key))
        THEN compare(downstream.url, upstream.url, "URL") ELSE <<>>)
    \o compare(downstream.authors, upstream.authors, "authors")
    \o compare(downstream.identifiers, upstream.identifiers, "identifiers")
    \o compare(downstream.date, upstream.date, "date")
    \o compare(downstream.comment, upstream.comment, "comment")

\* The branch of lines 389-426 that is taken, named after what it prints
Branch(entry, key, typed, upstream_entry) ==
    IF typed # <<>> /\ upstream_entry = <<>> THEN "new"
    ELSE IF typed = <<>> /\ upstream_entry # <<>> THEN "upstream_only"
    ELSE IF typed # <<>> /\ upstream_entry # <<>> THEN
        IF Len(upstream_entry) > 1 THEN "several"
        ELSE IF typed[1] # upstream_entry[1] THEN
            IF real_messages(entry, key, typed[1], upstream_entry[1]) # <<>>
            THEN "different" ELSE "unreported"
        ELSE "same"
    ELSE "nothing"

\* A plausible bug: overwriting although upstream holds several entries
Overwrite_several(branch) == branch \in {"new", "different", "several"}

\* overwrite at line 428
Overwrite(branch) == branch \in {"new", "different"}

\* A plausible bug: the identifiers forgotten
inner_no_identifiers(key, typed) ==
    [status |-> Status_as_str(typed.status),
     library |-> Library_as_str(typed.library),
     url |-> CanonicalUrl(key),
     authors |-> IF Truthy(typed.authors) THEN typed.authors ELSE None,
     identifiers |-> None,
     date |-> IF Truthy(typed.date) THEN typed.date ELSE None,
     comment |-> IF Truthy(typed.comment) THEN typed.comment ELSE None]

\* A plausible bug: the downstream URL passed through
inner_downstream_url(key, typed) ==
    [status |-> Status_as_str(typed.status),
     library |-> Library_as_str(typed.library),
     url |-> typed.url,
     authors |-> IF Truthy(typed.authors) THEN typed.authors ELSE None,
     identifiers |-> IF Truthy(typed.identifiers) THEN typed.identifiers ELSE None,
     date |-> IF Truthy(typed.date) THEN typed.date ELSE None,
     comment |-> IF Truthy(typed.comment) THEN typed.comment ELSE None]

\* inner of lines 429-443 (a key it does not set reads as None)
inner(key, typed) ==
    [status |-> Status_as_str(typed.status),
     library |-> Library_as_str(typed.library),
     url |-> CanonicalUrl(key),
     authors |-> IF Truthy(typed.authors) THEN typed.authors ELSE None,
     identifiers |-> IF Truthy(typed.identifiers) THEN typed.identifiers ELSE None,
     date |-> IF Truthy(typed.date) THEN typed.date ELSE None,
     comment |-> IF Truthy(typed.comment) THEN typed.comment ELSE None]

\* _parse_title_inner(wiki_links), as far as the model needs it: the title
\* is read from the first link (its text processing is not modelled)
_parse_title_inner(wiki_links) == <<"title of">> \o wiki_links[1]

\* The file that lines 444-453 write: the header with the derived title and
\* the document with its lean key replaced
Rewritten(file, key, typed) ==
    [header |-> _parse_title_inner(file.doc.wikipedia_links),
     doc |-> [file.doc EXCEPT !.forms["lean"] = RawList(<<inner(key, typed)>>)]]

----------------------------------------------------------------------------
(* _write_entry_for_downstream *)

\* [f for f in form if f.library == library]
OfLibrary(form, library) == SelectSeq(form, LAMBDA f : f.library = library)

\* stdlib_formalisations.get(0) at line 249: a list has no method get, the
\* call raises AttributeError (<<>> stands for the exception)
ListGet(list, n) == <<>>

\* first of lines 249 and 276, for a form that is not empty: <<>> when line
\* 249 raises
First(form) ==
    LET stdlib_formalisations == OfLibrary(form, "StandardLibrary")
        mathlib_formalisations == OfLibrary(form, "MainLibrary")
    IN  IF stdlib_formalisations # <<>> \/ mathlib_formalisations # <<>>
        THEN IF stdlib_formalisations # <<>>
             THEN ListGet(stdlib_formalisations, 0)
             ELSE <<mathlib_formalisations[1]>>
        ELSE <<form[1]>>

\* Whether lines 264-272 set the key (statement, decl or decls) from first
SetsKey(first, key) ==
    /\ first.library \in {"StandardLibrary", "MainLibrary"}
    /\ Truthy(first.identifiers)
    /\ CASE key = "statement" -> first.status = "Statement"
         [] key = "decl" -> first.status = "FullProof" /\ Len(first.identifiers.v) = 1
         [] key = "decls" -> first.status = "FullProof" /\ Len(first.identifiers.v) # 1

\* inner of lines 235-294 without its title, as the downstream entry it is
\* read back as (every identifier of the model is a string)
InnerOf(first) ==
    [statement |-> IF SetsKey(first, "statement") THEN first.identifiers ELSE Absent,
     decl |-> IF SetsKey(first, "decl") THEN Str(first.identifiers.v[1]) ELSE Absent,
     decls |-> IF SetsKey(first, "decls") THEN first.identifiers ELSE Absent,
     url |-> Absent,
     authors |-> IF Truthy(first.authors)
                 THEN Str(JoinWith(first.authors.v, "and")) ELSE Absent,
     date |-> IF Truthy(first.date) THEN first.date ELSE Absent,
     comment |-> IF Truthy(first.comment) THEN first.comment ELSE Absent]

\* inner when the theorem has no Lean entry: the title alone
InnerEmpty ==
    [statement |-> Absent, decl |-> Absent, decls |-> Absent, url |-> Absent,
     authors |-> Absent, date |-> Absent, comment |-> Absent]

\* _write_entry_for_downstream(entry): whether it raised, and if not the key,
\* the title, first (<<>> without Lean entries) and the rest of inner
_write_entry_for_downstream(entry) ==
    LET key == entry.wikidata \o entry.id_suffix
        title == _parse_title_inner(entry.wikipedia_links)
        form == entry.formalisations["Lean"]
    IN  IF form = <<>>
        THEN [raised |-> FALSE, key |-> key, title |-> title, first |-> <<>>,
              inner |-> InnerEmpty]
        ELSE IF First(form) = <<>>
        THEN [raised |-> TRUE, key |-> key, title |-> title, first |-> <<>>,
              inner |-> InnerEmpty]
        ELSE [raised |-> FALSE, key |-> key, title |-> title, first |-> First(form),
              inner |-> InnerOf(First(form)[1])]

\* One call of _write_entry_for_downstream
Project ==
    /\ pc = "project"
    /\ projection' = <<_write_entry_for_downstream(projecting[1])>>
    /\ pc' = "projected"
    /\ UNCHANGED <<wdVars, thm, input, i, candidate, report, projecting, generated>>

NextProj == Project

\* Lines 310-311: one file of the _thm directory is read and parsed
Parse ==
    /\ pc = "parse"
    /\ \E file \in {k \in DOMAIN thm : thm[k] # <<>>} :
          projecting' = _parse_theorem_entry(thm[file][1].doc)
    /\ pc' = "parsed"
    /\ UNCHANGED <<wdVars, thm, input, i, candidate, report, projection, generated>>

NextParse == Parse

----------------------------------------------------------------------------
(* generate_downstream_file *)

\* The orders in which os.scandir may yield the files of the directory
ScanOrders(files) ==
    LET names == {k \in DOMAIN files : files[k] # <<>>}
    IN  {order \in [1..Cardinality(names) -> names] :
            \A a, b \in DOMAIN order : a # b => order[a] # order[b]}

RECURSIVE ParsedInOrder(_, _)
\* theorems of lines 308-316: the entries parsed from the files in the order
\* given, a file that the parser rejects being left out
ParsedInOrder(files, order) ==
    IF order = <<>> THEN <<>>
    ELSE LET entry == _parse_theorem_entry(files[Head(order)][1].doc)
         IN  entry \o ParsedInOrder(files, Tail(order))

\* The sort key of line 322: int(t.wikidata[1:])
SortKey(t) == IntOf(Tail(t.wikidata))

RECURSIVE InsertSorted(_, _)
\* sorted so far, with t put behind every entry whose key is not larger
InsertSorted(t, sorted) ==
    IF sorted = <<>> THEN <<t>>
    ELSE IF SortKey(Head(sorted)) <= SortKey(t)
         THEN <<Head(sorted)>> \o InsertSorted(t, Tail(sorted))
         ELSE <<t>> \o sorted

RECURSIVE Sorted(_)
\* sorted(theorems, key=...): Python's sort is stable
Sorted(theorems) ==
    IF theorems = <<>> THEN <<>>
    ELSE InsertSorted(theorems[Len(theorems)],
                      Sorted(SubSeq(theorems, 1, Len(theorems) - 1)))

\* The documents of line 323
Documents(files, order) ==
    LET sorted_thms == Sorted(ParsedInOrder(files, order))
    IN  [j \in 1..Len(sorted_thms) |-> _write_entry_for_downstream(sorted_thms[j])]

\* python3 sync_mathlib_data.py --downstream.  When a document raises, the
\* file has been opened for writing and is left empty.
Generate ==
    /\ pc = "generate"
    /\ \E order \in ScanOrders(thm) :
          IF \E j \in DOMAIN Documents(thm, order) : Documents(thm, order)[j].raised
          THEN generated' = <<>> /\ pc' = "crashed"
          ELSE generated' = Documents(thm, order) /\ pc' = "generated"
    /\ UNCHANGED <<wdVars, projVars, thm, input, i, candidate, report>>

\* python3 sync_mathlib_data.py --upstream generated-1000.yaml, lines 328-329:
\* an empty file loads as None, and None.items() raises
ReadGenerated ==
    /\ pc = "generated"
    /\ IF generated = <<>>
       THEN pc' = "crashed" /\ UNCHANGED <<input, i>>
       ELSE /\ input' = [j \in DOMAIN generated |->
                            [key |-> generated[j].key, entry |-> generated[j].inner]]
            /\ i' = 1
            /\ pc' = "loop"
    /\ UNCHANGED <<wdVars, projVars, thm, candidate, report, generated>>

----------------------------------------------------------------------------
(* update_data_from_downstream_yaml: the run *)

\* id_with_suffix and entry of the iteration the loop is at
CurKey == input[i].key
CurEntry == input[i].entry

\* The file that open(os.path.join(THMS_DIR, f"{key}.md")) finds: <<>> when
\* there is none
Open(files, key) == IF key \in DOMAIN files THEN files[key] ELSE <<>>

\* Whether lines 378-386 get a TheoremEntry out of the file of key
Readable(files, key) ==
    Open(files, key) # <<>> /\ _parse_theorem_entry(files[key][1].doc) # <<>>

\* upstream_entry of line 387
upstream_entry(files, key) ==
    _parse_theorem_entry(files[key][1].doc)[1].formalisations["Lean"]

\* What the iteration over (key, entry) comes to when it does not raise:
\* "skipped" (line 377), "invalid" (line 386) or the branch of lines 389-426
Outcome(entry, key, files) ==
    IF key = SkipKey THEN "skipped"
    ELSE LET upstream_lean_entry == _parse_theorem_entry(files[key][1].doc)
         IN  IF upstream_lean_entry = <<>> THEN "invalid"
             ELSE Branch(entry, key, new_entry_typed(entry),
                         upstream_lean_entry[1].formalisations["Lean"])

\* The differing fields that lines 421-423 print
Printed(entry, key, files) ==
    IF Outcome(entry, key, files) = "different"
    THEN real_messages(entry, key, new_entry_typed(entry)[1],
             _parse_theorem_entry(files[key][1].doc)[1].formalisations["Lean"][1])
    ELSE <<>>

\* One iteration of the loop of line 331 that runs to its end
Step ==
    /\ pc = "loop"
    /\ i <= Len(input)
    /\ (CurKey = SkipKey \/ Open(thm, CurKey) # <<>>)
    /\ thm' = IF Overwrite(Outcome(CurEntry, CurKey, thm))
              THEN [thm EXCEPT ![CurKey] =
                       <<Rewritten(thm[CurKey][1], CurKey, new_entry_typed(CurEntry)[1])>>]
              ELSE thm
    /\ report' = Append(report, [key |-> CurKey,
                                 outcome |-> Outcome(CurEntry, CurKey, thm),
                                 fields |-> Printed(CurEntry, CurKey, thm)])
    /\ candidate' = new_entry_typed(CurEntry)
    /\ i' = i + 1
    /\ UNCHANGED <<wdVars, projVars, generated, input, pc>>

\* open(upstream_file) at line 378 raises FileNotFoundError: nothing catches
\* it and the command ends
Crash ==
    /\ pc = "loop"
    /\ i <= Len(input)
    /\ CurKey # SkipKey
    /\ Open(thm, CurKey) = <<>>
    /\ candidate' = new_entry_typed(CurEntry)
    /\ pc' = "crashed"
    /\ UNCHANGED <<wdVars, projVars, generated, thm, input, i, report>>

\* The loop is over and the function returns
Return ==
    /\ pc = "loop"
    /\ i > Len(input)
    /\ pc' = "done"
    /\ UNCHANGED <<wdVars, projVars, generated, thm, input, i, candidate, report>>

NextUp == Step \/ Crash \/ Return

\* python3 sync_mathlib_data.py --upstream input_file once more, after a run
\* that has returned: the same input_file is loaded (lines 328-329) and the
\* loop starts over the _thm directory as the runs before left it
Rerun ==
    /\ pc = "done"
    /\ Len(report) < MaxRuns * Len(input)
    /\ pc' = "loop"
    /\ i' = 1
    /\ candidate' = <<>>
    /\ UNCHANGED <<wdVars, projVars, generated, thm, input, report>>

NextTwice == Step \/ Crash \/ Return \/ Rerun

NextGen == Generate \/ ReadGenerated \/ Step \/ Crash \/ Return

----------------------------------------------------------------------------
(* The files and downstream entries the runs start from *)

\* The theorems of the model: wikidata identifier and id_suffix
TheoremQ9 == [wikidata |-> <<"Q", "9">>, id_suffix |-> <<>>]
TheoremQ42X == [wikidata |-> <<"Q", "4", "2">>, id_suffix |-> <<"X">>]
TheoremQ42A == [wikidata |-> <<"Q", "4", "2">>, id_suffix |-> <<"A">>]
TheoremQ100 == [wikidata |-> <<"Q", "1", "0", "0">>, id_suffix |-> <<>>]
TheoremSkipped == [wikidata |-> SkipKey, id_suffix |-> <<>>]
Theorems == {TheoremQ9, TheoremQ42X, TheoremQ42A, TheoremQ100, TheoremSkipped}

\* key = entry.wikidata + (entry.id_suffix or "")
KeyOf(t) == t.wikidata \o t.id_suffix
\* The keys of the files that the runs of --upstream start from
Keys == {KeyOf(t) : t \in {TheoremQ9, TheoremQ42X, TheoremSkipped}}
TheoremOf(key) == CHOOSE t \in Theorems : KeyOf(t) = key

\* A formalisation sub-document of a per-theorem file
RawEntry(status, library, url, authors, identifiers, date, comment) ==
    [status |-> status, library |-> library, url |-> url, authors |-> authors,
     identifiers |-> identifiers, date |-> date, comment |-> comment]

\* A per-theorem file: its header line and its yaml document
File(wikidata, id_suffix, lean, isabelle) ==
    [header |-> <<"# as written">>,
     doc |-> [wikidata |-> wikidata,
              id_suffix |-> id_suffix,
              msc_classification |-> <<"11">>,
              wikipedia_links |-> << <<"[[Some theorem]]">> >>,
              forms |-> [k \in {RawKey(pa) : pa \in ProofAssistant} |->
                            CASE k = "lean" -> lean
                              [] k = "isabelle" -> isabelle
                              [] OTHER -> RawAbsent]]]

\* A downstream entry
Entry(statement, decl, decls, url, authors, date, comment) ==
    [statement |-> statement, decl |-> decl, decls |-> decls, url |-> url,
     authors |-> authors, date |-> date, comment |-> comment]

IdA == <<"a">>
IdB == <<"b">>
OtherUrl == Str(<<"https://example.org/proof">>)
AuthorsAB == Str(<<"A", "and", "B">>)
Date2020 == Str(<<"2020">>)
CommentC == Str(<<"c">>)

\* The sub-document that reconciling `decl: a` writes
LeanDeclA(key) == RawEntry("formalized", "L", CanonicalUrl(key), None, List(<<IdA>>), None, None)
LeanExternal == RawEntry("formalized", "X", OtherUrl, List(<<<<"A">>>>), None, Date2020, None)
IsabelleGood == RawEntry("formalized", "L", OtherUrl, None, None, None, None)
IsabelleBadStatus == RawEntry("proved", "L", OtherUrl, None, None, None, None)

\* The states of one theorem's file that the runs over several keys start from
FilesFew(key) ==
    LET t == TheoremOf(key)
    IN  { <<>>,
          <<File(Tail(t.wikidata), t.id_suffix, RawAbsent, RawAbsent)>>,
          <<File(t.wikidata, t.id_suffix, RawAbsent, RawList(<<IsabelleBadStatus>>))>>,
          <<File(t.wikidata, t.id_suffix, RawAbsent, RawList(<<IsabelleGood>>))>>,
          <<File(t.wikidata, t.id_suffix, RawList(<<LeanDeclA(key)>>), RawAbsent)>>,
          <<File(t.wikidata, t.id_suffix, RawList(<<LeanDeclA(key), LeanExternal>>), RawAbsent)>> }

\* The downstream entries that the runs over several keys start from
EntriesFew ==
    { Entry(Absent, Absent, Absent, Absent, Absent, Absent, Absent),
      Entry(Absent, Str(IdA), Absent, Absent, Absent, Absent, Absent),
      Entry(Str(IdA), Absent, Absent, Absent, AuthorsAB, Date2020, Absent),
      Entry(Absent, Absent, Absent, OtherUrl, Str(<<>>), Absent, CommentC) }

\* The files of key that the runs over several keys start from: the file of
\* the key skipped at line 374 is never opened, it is there or not
FilesOfRun(key) ==
    IF key = SkipKey
    THEN {<<>>, <<File(TheoremOf(key).wikidata, TheoremOf(key).id_suffix,
                       RawList(<<LeanDeclA(key)>>), RawAbsent)>>}
    ELSE FilesFew(key)

\* The sequences of at most n distinct keys
KeySeqs(n) == {ks \in SeqsUpTo(Keys, n) : \A a, b \in 1..Len(ks) : a # b => ks[a] # ks[b]}

\* python3 sync_mathlib_data.py --upstream input_file, after line 329
Init ==
    /\ wdInput = <<>>
    /\ wdResult = "unused"
    /\ \E ks \in KeySeqs(MaxKeys) :
          /\ ks # <<>>
          /\ \E es \in [1..Len(ks) -> EntriesFew] :
                input = [j \in 1..Len(ks) |-> [key |-> ks[j], entry |-> es[j]]]
          /\ \E fs \in [1..Len(ks) -> UNION {FilesFew(k) : k \in Keys}] :
                /\ \A j \in 1..Len(ks) : fs[j] \in FilesOfRun(ks[j])
                /\ thm = [k \in Keys |->
                            IF \E j \in 1..Len(ks) : ks[j] = k
                            THEN fs[CHOOSE j \in 1..Len(ks) : ks[j] = k]
                            ELSE <<File(TheoremOf(k).wikidata, TheoremOf(k).id_suffix,
                                        RawAbsent, RawAbsent)>>]
    /\ pc = "loop"
    /\ i = 1
    /\ candidate = <<>>
    /\ report = <<>>
    /\ projecting = <<>>
    /\ projection = <<>>
    /\ generated = <<>>

Spec == Init /\ [][NextUp]_vars

\* Every combination of the keys of a downstream entry
EntriesFull ==
    { Entry(statement, decl, decls, url, authors, date, comment) :
        statement \in {Absent, Str(IdA), List(<<IdA>>)},
        decl \in {Absent, Str(IdA)},
        decls \in {Absent, List(<<>>), List(<<IdA, IdB>>)},
        url \in {Absent, OtherUrl},
        authors \in {Absent, Str(<<>>), Str(<<"A">>), AuthorsAB},
        date \in {Absent, Date2020},
        comment \in {Absent, Str(<<>>), CommentC} }

\* The downstream entries compared with every single upstream entry
EntriesMid ==
    { e \in EntriesFull :
        /\ <<e.statement, e.decl, e.decls, e.url>> \in
              { <<Absent, Absent, Absent, Absent>>,
                <<Str(IdA), Absent, Absent, Absent>>,
                <<Absent, Str(IdA), Absent, Absent>>,
                <<Absent, Absent, List(<<IdA, IdB>>), Absent>>,
                <<Absent, Str(IdA), Absent, OtherUrl>>,
                <<Absent, Absent, Absent, OtherUrl>> }
        /\ e.authors # Str(<<"A">>)
        /\ e.comment # Str(<<>>) }

\* The files that hold exactly one Lean sub-document
FilesOne(key) ==
    { <<File(TheoremOf(key).wikidata, TheoremOf(key).id_suffix,
             RawList(<<RawEntry(sl[1], sl[2], url, authors, identifiers, date, comment)>>),
             RawAbsent)>> :
        sl \in {<<"statement", "L">>, <<"formalized", "L">>, <<"formalized", "X">>,
                <<"formalized", "S">>},
        url \in {CanonicalUrl(key), OtherUrl},
        authors \in {None, List(<<<<"A">>, <<"B">>>>)},
        identifiers \in {None, List(<<IdA>>), List(<<IdA, IdB>>)},
        date \in {None, Date2020},
        comment \in {None, CommentC} }

\* python3 sync_mathlib_data.py --upstream input_file, after line 329, for an
\* input_file of one entry
InitOne ==
    /\ wdInput = <<>>
    /\ wdResult = "unused"
    /\ \E key \in {KeyOf(TheoremQ9), SkipKey} :
          \E pair \in (IF key = SkipKey THEN {}
                       ELSE EntriesMid \X FilesOne(key)) \cup (EntriesFull \X FilesFew(key)) :
             /\ input = <<[key |-> key, entry |-> pair[1]]>>
             /\ thm = [k \in Keys |->
                         IF k = key THEN pair[2]
                         ELSE <<File(TheoremOf(k).wikidata, TheoremOf(k).id_suffix,
                                     RawAbsent, RawAbsent)>>]
    /\ pc = "loop"
    /\ i = 1
    /\ candidate = <<>>
    /\ report = <<>>
    /\ projecting = <<>>
    /\ projection = <<>>
    /\ generated = <<>>

SpecOne == InitOne /\ [][NextUp]_vars

\* The same, the command being run again after it has returned
SpecTwice == InitOne /\ [][NextTwice]_vars

----------------------------------------------------------------------------
(* Specification SpecProj: _write_entry_for_downstream applied to theorems *)
(* with every short list of Lean entries                                   *)

ProjExternal ==
    FormalisationEntry("FullProof", "External", OtherUrl, None, None, None, Str(<<"x">>))
ProjMainStatement ==
    FormalisationEntry("Statement", "MainLibrary", OtherUrl, None, List(<<IdA>>), None,
                       Str(<<"l">>))
ProjMainProof ==
    FormalisationEntry("FullProof", "MainLibrary", OtherUrl, List(<<<<"A">>, <<"B">>>>),
                       List(<<IdA, IdB>>), Date2020, Str(<<"l2">>))
ProjStdProof ==
    FormalisationEntry("FullProof", "StandardLibrary", OtherUrl, None, List(<<IdA>>), None,
                       Str(<<"s">>))
ProjEntries == {ProjExternal, ProjMainStatement, ProjMainProof, ProjStdProof}

\* The TheoremEntry of TheoremQ9 with the Lean entries form
TheoremEntryWith(form) ==
    [wikidata |-> TheoremQ9.wikidata,
     id_suffix |-> TheoremQ9.id_suffix,
     msc_classification |-> <<"11">>,
     wikipedia_links |-> << <<"[[Some theorem]]">> >>,
     formalisations |-> [pa \in ProofAssistant |-> IF pa = "Lean" THEN form ELSE <<>>]]

InitProj ==
    /\ wdInput = <<>>
    /\ wdResult = "unused"
    /\ thm = <<>>
    /\ input = <<>>
    /\ pc = "project"
    /\ i = 0
    /\ candidate = <<>>
    /\ report = <<>>
    /\ \E form \in SeqsUpTo(ProjEntries, MaxLean) : projecting = <<TheoremEntryWith(form)>>
    /\ projection = <<>>
    /\ generated = <<>>

SpecProj == InitProj /\ [][NextProj]_vars

----------------------------------------------------------------------------
(* Specification SpecGen: the downstream file is generated from the        *)
(* directory and then handed back to --upstream                            *)

GenKeys == {KeyOf(t) : t \in {TheoremQ9, TheoremQ42X, TheoremQ42A, TheoremQ100}}

LeanStatementA(key) ==
    RawEntry("statement", "L", CanonicalUrl(key), List(<<<<"A">>, <<"B">>>>), List(<<IdA>>),
             Date2020, None)
LeanDeclsAB(key) ==
    RawEntry("formalized", "L", CanonicalUrl(key), None, List(<<IdA, IdB>>), None, CommentC)
LeanStdA(key) == RawEntry("formalized", "S", CanonicalUrl(key), None, List(<<IdA>>), None, None)

\* The states of one theorem's file that generation starts from
GenVariants ==
    {"none", "invalid", "no_lean", "decl", "decls", "statement", "external", "std",
     "no_suffix"}

\* The file of key in the state named; "no_suffix" is a file that has lost
\* its id_suffix, and so carries another theorem's key
FileGen(key, variant) ==
    LET t == TheoremOf(key)
    IN  CASE variant = "none" -> <<>>
          [] variant = "invalid" ->
                <<File(Tail(t.wikidata), t.id_suffix, RawAbsent, RawAbsent)>>
          [] variant = "no_lean" ->
                <<File(t.wikidata, t.id_suffix, RawAbsent, RawList(<<IsabelleGood>>))>>
          [] variant = "decl" ->
                <<File(t.wikidata, t.id_suffix, RawList(<<LeanDeclA(key)>>), RawAbsent)>>
          [] variant = "decls" ->
                <<File(t.wikidata, t.id_suffix, RawList(<<LeanDeclsAB(key)>>), RawAbsent)>>
          [] variant = "statement" ->
                <<File(t.wikidata, t.id_suffix, RawList(<<LeanStatementA(key)>>), RawAbsent)>>
          [] variant = "external" ->
                <<File(t.wikidata, t.id_suffix, RawList(<<LeanExternal>>), RawAbsent)>>
          [] variant = "std" ->
                <<File(t.wikidata, t.id_suffix, RawList(<<LeanStdA(key)>>), RawAbsent)>>
          [] variant = "no_suffix" ->
                <<File(t.wikidata, <<>>, RawList(<<LeanDeclA(key)>>), RawAbsent)>>

InitGen ==
    /\ wdInput = <<>>
    /\ wdResult = "unused"
    /\ \E variant \in [GenKeys -> GenVariants] :
          /\ Cardinality({k \in GenKeys : variant[k] # "none"}) <= MaxFiles
          /\ thm = [k \in GenKeys |-> FileGen(k, variant[k])]
    /\ input = <<>>
    /\ pc = "generate"
    /\ i = 0
    /\ candidate = <<>>
    /\ report = <<>>
    /\ projecting = <<>>
    /\ projection = <<>>
    /\ generated = <<>>

SpecGen == InitGen /\ [][NextGen]_vars

----------------------------------------------------------------------------
(* _parse_theorem_entry on one file *)

IsabelleBadLibrary == RawEntry("formalized", "M", OtherUrl, None, None, None, None)

\* What an assistant's key holds in the files parsed: nothing, an empty
\* list, or sub-documents of which the last may carry an unknown code
ParseRaws ==
    { RawAbsent, RawList(<<>>), RawList(<<IsabelleGood>>),
      RawList(<<IsabelleGood, IsabelleBadLibrary>>), RawList(<<IsabelleBadStatus>>) }

\* The file of TheoremQ9 with the wikidata identifier and the assistants' keys given
FileWith(wikidata, forms) ==
    [File(wikidata, TheoremQ9.id_suffix, RawAbsent, RawAbsent) EXCEPT !.doc.forms = forms]

InitParse ==
    /\ wdInput = <<>>
    /\ wdResult = "unused"
    /\ \E wikidata \in {TheoremQ9.wikidata, Tail(TheoremQ9.wikidata)} :
          \E forms \in [{RawKey(pa) : pa \in ProofAssistant} -> ParseRaws] :
             thm = [k \in {KeyOf(TheoremQ9)} |-> <<FileWith(wikidata, forms)>>]
    /\ input = <<>>
    /\ pc = "parse"
    /\ i = 0
    /\ candidate = <<>>
    /\ report = <<>>
    /\ projecting = <<>>
    /\ projection = <<>>
    /\ generated = <<>>

SpecParse == InitParse /\ [][NextParse]_vars

----------------------------------------------------------------------------
(* Specification SpecWD: is_valid_wikidata applied to every short string *)

WdAlphabet == {"Q", "7", "a", "-", " ", "_"}

InitWD ==
    /\ wdInput \in SeqsUpTo(WdAlphabet, MaxWdLen)
    /\ wdResult = "pending"
    /\ thm = <<>>
    /\ input = <<>>
    /\ pc = "is_valid_wikidata"
    /\ i = 0
    /\ candidate = <<>>
    /\ report = <<>>
    /\ projecting = <<>>
    /\ projection = <<>>
    /\ generated = <<>>

\* One call of is_valid_wikidata
Validate ==
    /\ wdResult = "pending"
    /\ wdResult' = IF is_valid_wikidata(wdInput) THEN "True" ELSE "False"
    /\ UNCHANGED <<wdInput, thm, input, pc, i, candidate, report, projVars, generated>>

NextWD == Validate

SpecWD == InitWD /\ [][NextWD]_vars

----------------------------------------------------------------------------
(* Claims about update_data_from_downstream_yaml *)

\* The loop is at an entry whose per-theorem file is read and parsed
AtReadable == pc = "loop" /\ i <= Len(input) /\ Readable(thm, CurKey)

\* The formalisation that the Lean list of the file of key holds at position n
LeanHeld(files, key, n) ==
    parse_formalization_entry(files[key][1].doc.forms["lean"].v[n])[1]

\* C1: a per-theorem record is overwritten only if the downstream entry yields
\* a candidate and the record's current Lean list has at most one entry; in
\* every other case the record is left exactly as it was.
C1_OverwriteOnlyWithCandidate ==
    [][\A k \in DOMAIN thm :
          thm'[k] # thm[k] =>
              /\ AtReadable
              /\ k = CurKey
              /\ new_entry_typed(CurEntry) # <<>>
              /\ Len(upstream_entry(thm, k)) <= 1]_vars

\* Witness of C1: a run has gone through an entry whose upstream list holds
\* several entries and through one that has no candidate but upstream entries
C1_Witness ==
    \E j, l \in DOMAIN report :
        /\ report[j].outcome = "several"
        /\ report[l].outcome = "upstream_only"
        /\ Len(thm[report[j].key][1].doc.forms["lean"].v) = 2

FieldNames == {"status", "library", "url", "authors", "identifiers", "date", "comment"}

\* The name under which a field is reported
ReportedAs(f) == IF f = "url" THEN "URL" ELSE f

\* The names of the fields in which a candidate and an upstream entry differ
Differing(downstream, upstream) ==
    {ReportedAs(f) : f \in {g \in FieldNames : downstream[g] # upstream[g]}}

\* C2: with a candidate and exactly one upstream entry, the two are compared
\* over all seven fields: all equal is a no-op without overwrite; otherwise the
\* outcome is diverged, the record is overwritten and exactly the differing
\* fields are reported by name.
C2_ComparesSevenFields ==
    [][(/\ AtReadable
        /\ CurKey # SkipKey
        /\ new_entry_typed(CurEntry) # <<>>
        /\ Len(upstream_entry(thm, CurKey)) = 1) =>
          LET differing == Differing(new_entry_typed(CurEntry)[1],
                                     upstream_entry(thm, CurKey)[1])
          IN  IF differing = {}
              THEN report'[i].outcome = "same" /\ thm' = thm
              ELSE /\ report'[i].outcome = "different"
                   /\ {report'[i].fields[n] : n \in DOMAIN report'[i].fields} = differing
                   /\ thm'[CurKey] = <<Rewritten(thm[CurKey][1], CurKey,
                                                 new_entry_typed(CurEntry)[1])>>]_vars

\* C4: a per-theorem record that is missing, or that the parser rejects, ends
\* the processing of its key alone with a reported error; every other key of
\* the downstream file is still processed in the same run.
C4_FailureIsolation ==
    pc # "loop" =>
        \A j \in 1..Len(input) :
            /\ j <= Len(report)
            /\ report[j].key = input[j].key
            /\ (input[j].key # SkipKey /\ ~Readable(thm, input[j].key))
                   => report[j].outcome = "invalid"

\* C5: whenever the record of key k is overwritten, its Lean field becomes a
\* one-element list whose URL is the canonical one of k, every other top-level
\* field of the record is unchanged, and no other file is written.
C5_OverwriteFrame ==
    [][(pc = "loop" /\ i' = i + 1 /\ report'[i].outcome \in {"new", "different"}) =>
          LET old == thm[CurKey][1].doc
              new == thm'[CurKey][1].doc
          IN  /\ new.forms["lean"].k = "list"
              /\ Len(new.forms["lean"].v) = 1
              /\ new.forms["lean"].v[1].url = CanonicalUrl(CurKey)
              /\ new.wikidata = old.wikidata
              /\ new.id_suffix = old.id_suffix
              /\ new.msc_classification = old.msc_classification
              /\ new.wikipedia_links = old.wikipedia_links
              /\ DOMAIN new.forms = DOMAIN old.forms
              /\ \A a \in DOMAIN old.forms \ {"lean"} : new.forms[a] = old.forms[a]
              /\ \A k \in DOMAIN thm \ {CurKey} : thm'[k] = thm[k]]_vars

\* Witness of C5: a record that held another assistant's entry has been
\* overwritten from a downstream entry that carried a URL of its own
C5_Witness ==
    \E j \in DOMAIN report :
        /\ report[j].outcome \in {"new", "different"}
        /\ input[j].entry.url = OtherUrl
        /\ thm[report[j].key][1].doc.forms["isabelle"] = RawList(<<IsabelleGood>>)
        /\ thm[report[j].key][1].doc.forms["lean"].v[1].url = CanonicalUrl(report[j].key)

\* What C6 asks of the file of key once a candidate has been written to it:
\* one Lean entry with the candidate's fields
CarriesAll(files, key, c) ==
    /\ Len(files[key][1].doc.forms["lean"].v) = 1
    /\ LET e == LeanHeld(files, key, 1)
       IN  /\ e.status = c.status
           /\ e.library = c.library
           /\ e.identifiers = c.identifiers
           /\ e.authors = c.authors
           /\ e.date = c.date
           /\ e.comment = c.comment

\* The same, with a field of the candidate that is empty or None left out
CarriesNonEmpty(files, key, c) ==
    /\ Len(files[key][1].doc.forms["lean"].v) = 1
    /\ LET e == LeanHeld(files, key, 1)
           kept(x) == IF Truthy(x) THEN x ELSE None
       IN  /\ e.status = c.status
           /\ e.library = c.library
           /\ e.identifiers = kept(c.identifiers)
           /\ e.authors = kept(c.authors)
           /\ e.date = kept(c.date)
           /\ e.comment = kept(c.comment)

\* The loop is at an entry with a candidate whose record parses with an empty
\* Lean list
AtDownstreamAhead ==
    /\ AtReadable
    /\ new_entry_typed(CurEntry) # <<>>
    /\ upstream_entry(thm, CurKey) = <<>>

\* C6 as claimed: a candidate whose record parses with an empty Lean list is
\* classified downstream-ahead and the record overwritten, its Lean list then
\* holding one entry with the candidate's status, library, identifiers,
\* authors, date and comment.
C6_DownstreamAheadCarriesAll ==
    [][AtDownstreamAhead =>
          /\ report'[i].outcome = "new"
          /\ CarriesAll(thm', CurKey, new_entry_typed(CurEntry)[1])]_vars

\* C6 as amended: for a key other than the skipped Q513028 the record is
\* classified downstream-ahead and overwritten, its Lean list then holding one
\* entry with the candidate's status and library and with those of its
\* identifiers, authors, date and comment that are not empty (an empty or
\* missing one is left out); the record is still so when the run has ended.
C6_DownstreamAheadCarriesNonEmpty ==
    /\ [][(AtDownstreamAhead /\ CurKey # SkipKey) =>
             /\ report'[i].outcome = "new"
             /\ CarriesNonEmpty(thm', CurKey, new_entry_typed(CurEntry)[1])]_vars
    /\ [](pc = "done" =>
             \A j \in DOMAIN report :
                 report[j].outcome = "new" =>
                     CarriesNonEmpty(thm, report[j].key, new_entry_typed(input[j].entry)[1]))

\* Witness of C6: a run has ended after writing a new entry whose candidate
\* had identifiers and a date, and an empty authors string
C6_Witness ==
    /\ pc = "done"
    /\ \E j \in DOMAIN report :
          /\ report[j].outcome = "new"
          /\ input[j].entry.authors = Str(<<>>)
          /\ LeanHeld(thm, report[j].key, 1).identifiers = List(<<IdA, IdB>>)
          /\ LeanHeld(thm, report[j].key, 1).date = Date2020
          /\ LeanHeld(thm, report[j].key, 1).authors = None

\* The entry that the latest iteration derived its candidate from
Derived == IF pc = "crashed" THEN i ELSE i - 1

\* The status and library that C8 gives a trigger
ClaimedKind(trigger) ==
    CASE trigger = "statement" -> <<"Statement", "MainLibrary">>
      [] trigger = "decl" -> <<"FullProof", "MainLibrary">>
      [] trigger = "url" -> <<"FullProof", "External">>

\* The first present trigger key, in the priority statement, decl-or-decls, url
ClaimedTrigger(e) ==
    IF Has(e.statement) THEN "statement"
    ELSE IF Has(e.decl) \/ Has(e.decls) THEN "decl"
    ELSE IF Has(e.url) THEN "url"
    ELSE "none"

\* C8 as claimed: the first present key among statement, decl-or-decls, url
\* fixes status and library; identifiers are [x] for `statement: x` or
\* `decl: x` and the list verbatim for `decls`; authors are the authors string
\* split on " and "; date and comment are passed through; without a trigger
\* key there is no candidate.
C8_CandidateAsClaimed ==
    (pc \in {"loop", "crashed", "done"} /\ Derived >= 1) =>
        LET e == input[Derived].entry
            t == ClaimedTrigger(e)
        IN  IF t = "none" THEN candidate = <<>>
            ELSE /\ candidate # <<>>
                 /\ <<candidate[1].status, candidate[1].library>> = ClaimedKind(t)
                 /\ t = "statement" => candidate[1].identifiers = Singleton(e.statement)
                 /\ t = "decl" =>
                       \/ Has(e.decls) /\ candidate[1].identifiers = e.decls
                       \/ Has(e.decl) /\ candidate[1].identifiers = Singleton(e.decl)
                 /\ Has(e.authors) => candidate[1].authors = List(SplitAnd(e.authors.v[1]))
                 /\ candidate[1].date = Get(e.date)
                 /\ candidate[1].comment = Get(e.comment)

\* C8 as amended: as claimed, except that an empty `decls` list counts as
\* missing (identifiers are then [x] for `decl: x` and None without `decl`),
\* a non-empty `decls` wins over `decl`, and only a non-empty authors string is
\* split (an empty one is kept as it is, a missing one is None).
C8_CandidateAsDerived ==
    (pc \in {"loop", "crashed", "done"} /\ Derived >= 1) =>
        LET e == input[Derived].entry
            t == ClaimedTrigger(e)
        IN  IF t = "none" THEN candidate = <<>>
            ELSE /\ candidate # <<>>
                 /\ <<candidate[1].status, candidate[1].library>> = ClaimedKind(t)
                 /\ t = "statement" => candidate[1].identifiers = Singleton(e.statement)
                 /\ t = "decl" =>
                       candidate[1].identifiers =
                           IF Has(e.decls) /\ e.decls # List(<<>>) THEN e.decls
                           ELSE IF Has(e.decl) THEN Singleton(e.decl)
                           ELSE None
                 /\ t = "url" => candidate[1].identifiers = None
                 /\ candidate[1].authors =
                       IF Has(e.authors) /\ e.authors # Str(<<>>)
                       THEN List(SplitAnd(e.authors.v[1])) ELSE Get(e.authors)
                 /\ candidate[1].date = Get(e.date)
                 /\ candidate[1].comment = Get(e.comment)

\* Witness of C8: a candidate was derived from an entry that holds `decls`,
\* `decl`, `url` and two authors
C8_Witness ==
    /\ pc = "done"
    /\ input[1].entry.decls = List(<<IdA, IdB>>)
    /\ input[1].entry.decl = Str(IdA)
    /\ input[1].entry.url = OtherUrl
    /\ candidate # <<>>
    /\ candidate[1].library = "MainLibrary"
    /\ candidate[1].identifiers = List(<<IdA, IdB>>)
    /\ candidate[1].authors = List(<<<<"A">>, <<"B">>>>)

----------------------------------------------------------------------------
(* Claims about repeated runs (checked under SpecTwice) *)

\* The loop of a run after the first is at an entry
AtLaterRun == pc = "loop" /\ i <= Len(input) /\ Len(report) >= Len(input)

\* C12: after one reconciliation run has completed, a second run over the
\* same downstream file overwrites no per-theorem record: every key, and so
\* every key that the first run overwrote, goes through without a write and
\* without a reported difference.
C12_SecondRunOverwritesNothing ==
    [][(AtLaterRun /\ i' = i + 1) =>
          /\ ~Overwrite(report'[Len(report) + 1].outcome)
          /\ report'[Len(report) + 1].fields = <<>>
          /\ Overwrite(report[i].outcome) =>
                report'[Len(report) + 1].outcome \in {"same", "unreported"}
          /\ thm' = thm]_vars

----------------------------------------------------------------------------
(* Claims about the downstream direction *)

\* The entry that C7 has the projector select from a list that is not empty
ClaimedSelection(form) ==
    LET std == SelectSeq(form, LAMBDA f : f.library = "StandardLibrary")
        main == SelectSeq(form, LAMBDA f : f.library = "MainLibrary")
    IN  IF std # <<>> THEN std[1] ELSE IF main # <<>> THEN main[1] ELSE form[1]

\* C7: from a Lean list that is not empty the projector selects the first
\* StandardLibrary entry if there is one, otherwise the first MainLibrary entry
\* if there is one, otherwise the first entry, which is External; the selected
\* entry is the one projected.
C7_SelectionPriority ==
    (projection # <<>> /\ projecting[1].formalisations["Lean"] # <<>>) =>
        LET form == projecting[1].formalisations["Lean"]
            selected == ClaimedSelection(form)
        IN  /\ ~projection[1].raised
            /\ projection[1].first = <<selected>>
            /\ projection[1].inner.comment = selected.comment
            /\ (\A j \in DOMAIN form :
                   form[j].library \notin {"StandardLibrary", "MainLibrary"})
                  => selected.library = "External"

\* Whether file holds a TheoremRecord whose Lean list is a single
\* StandardLibrary FullProof entry with exactly one identifier
StdSingle(file) ==
    /\ file # <<>>
    /\ _parse_theorem_entry(file[1].doc) # <<>>
    /\ LET form == _parse_theorem_entry(file[1].doc)[1].formalisations["Lean"]
       IN  /\ Len(form) = 1
           /\ form[1].library = "StandardLibrary"
           /\ form[1].status = "FullProof"
           /\ form[1].identifiers.k = "list"
           /\ Len(form[1].identifiers.v) = 1

\* C3: a TheoremRecord whose Lean list is a single StandardLibrary FullProof
\* entry with one identifier is projected, and reconciling the projected entry
\* against the unchanged record is a no-op that overwrites nothing.
C3_RoundTripStandardLibrary ==
    [][/\ (pc = "generate" /\ \E k \in DOMAIN thm : StdSingle(thm[k])) =>
              /\ pc' = "generated"
              /\ \A k \in DOMAIN thm :
                    (StdSingle(thm[k]) /\ KeyOf(thm[k][1].doc) = k) =>
                        \E j \in DOMAIN generated' : generated'[j].key = k
       /\ (pc = "loop" /\ i <= Len(input) /\ StdSingle(Open(thm, CurKey))) =>
              /\ i' = i + 1
              /\ report'[i].outcome \in {"same", "unreported"}
              /\ thm' = thm]_vars

RECURSIVE DigitPrefix(_)
\* The digits that a string starts with
DigitPrefix(s) ==
    IF s # <<>> /\ Head(s) \in Digits THEN <<Head(s)>> \o DigitPrefix(Tail(s)) ELSE <<>>

\* The number in the wikidata identifier that a key starts with
NumericOfKey(key) == DigitPartValue(DigitPrefix(Tail(key)), 0)

\* The files of the directory that the parser accepts
Accepted(files) ==
    {k \in DOMAIN files : files[k] # <<>> /\ _parse_theorem_entry(files[k][1].doc) # <<>>}

\* C9: once generate_downstream_file has ended, the aggregate file holds one
\* document per per-theorem record that parsed (a rejected record is left out
\* and stops nothing), in ascending numeric order of the wikidata identifier.
C9_AggregateCompleteAndSorted ==
    (pc # "generate" /\ input = <<>>) =>
        /\ Len(generated) = Cardinality(Accepted(thm))
        /\ {generated[j].key : j \in DOMAIN generated}
              = {KeyOf(thm[k][1].doc) : k \in Accepted(thm)}
        /\ \A a, b \in DOMAIN generated :
              a < b => NumericOfKey(generated[a].key) <= NumericOfKey(generated[b].key)

\* Whether file holds a TheoremRecord whose Lean list is a single MainLibrary
\* entry with the canonical URL of its key and identifiers that are not empty
MainSingle(file) ==
    /\ file # <<>>
    /\ _parse_theorem_entry(file[1].doc) # <<>>
    /\ LET form == _parse_theorem_entry(file[1].doc)[1].formalisations["Lean"]
       IN  /\ Len(form) = 1
           /\ form[1].library = "MainLibrary"
           /\ form[1].status \in {"Statement", "FullProof"}
           /\ form[1].url = CanonicalUrl(KeyOf(file[1].doc))
           /\ form[1].identifiers.k = "list"
           /\ form[1].identifiers.v # <<>>

\* The loop is at the entry projected from the record of its key, a record
\* with a single MainLibrary entry that has not changed since
AtProjectedMainSingle ==
    /\ pc = "loop"
    /\ i <= Len(input)
    /\ MainSingle(Open(thm, CurKey))
    /\ KeyOf(thm[CurKey][1].doc) = CurKey
    /\ \E j \in DOMAIN generated :
          generated[j].key = CurKey /\ generated[j].inner = CurEntry

\* C13: a TheoremRecord whose Lean list is a single MainLibrary entry with
\* the canonical URL and identifiers that are not empty, of either status and
\* with any number of identifiers, is projected to an entry that reconciles
\* against the same record with no differing field reported and no overwrite.
C13_RoundTripMainLibrary ==
    [][AtProjectedMainSingle =>
          /\ i' = i + 1
          /\ report'[i].fields = <<>>
          /\ ~Overwrite(report'[i].outcome)
          /\ thm' = thm]_vars

----------------------------------------------------------------------------
(* Claims about _parse_theorem_entry (checked under SpecParse) *)

\* The document of the file that was parsed
ParsedDoc == thm[KeyOf(TheoremQ9)][1].doc

\* A sub-document whose status or library code is not one of the known ones
Unrecognized(e) ==
    e.status \notin {"formalized", "statement"} \/ e.library \notin {"S", "L", "X"}

\* Whether some assistant's key of doc holds a sub-document with an unknown code
HasUnrecognized(doc) ==
    \E k \in DOMAIN doc.forms :
        /\ doc.forms[k].k = "list"
        /\ \E j \in DOMAIN doc.forms[k].v : Unrecognized(doc.forms[k].v[j])

\* C11: if any sub-record under any of the six assistant keys has an
\* unrecognized status or library code, _parse_theorem_entry returns no
\* record; otherwise the record it returns (it returns one unless the
\* wikidata identifier is invalid) maps every one of the six proof assistants
\* to a list, the empty list for an assistant absent from the document.
C11_RejectionAllOrNothing ==
    pc = "parsed" =>
        /\ HasUnrecognized(ParsedDoc) => projecting = <<>>
        /\ ~HasUnrecognized(ParsedDoc) =>
              (projecting = <<>> <=> ~is_valid_wikidata(ParsedDoc.wikidata))
        /\ projecting # <<>> =>
              /\ DOMAIN projecting[1].formalisations = ProofAssistant
              /\ \A pa \in ProofAssistant :
                    LET raw == ParsedDoc.forms[RawKey(pa)]
                    IN  /\ raw = RawAbsent => projecting[1].formalisations[pa] = <<>>
                        /\ raw # RawAbsent =>
                              Len(projecting[1].formalisations[pa]) = Len(raw.v)

\* Witness of C11: a record with a valid identifier was rejected for the
\* unknown library code of its second Isabelle sub-document alone, every
\* other sub-document of it being a good one
C11_Witness ==
    /\ pc = "parsed"
    /\ projecting = <<>>
    /\ is_valid_wikidata(ParsedDoc.wikidata)
    /\ ParsedDoc.forms["isabelle"] = RawList(<<IsabelleGood, IsabelleBadLibrary>>)
    /\ \A k \in DOMAIN ParsedDoc.forms \ {"isabelle", "lean"} :
          ParsedDoc.forms[k] = RawList(<<IsabelleGood>>)
    /\ ParsedDoc.forms["lean"] = RawAbsent

----------------------------------------------------------------------------
(* Claims about is_valid_wikidata (checked under SpecWD) *)

\* The letter Q followed by one or more decimal digits
IsQDigits(s) ==
    /\ Len(s) >= 2
    /\ s[1] = "Q"
    /\ \A j \in 2..Len(s) : s[j] \in Digits

\* C10: is_valid_wikidata accepts a string if and only if it is the letter Q
\* followed by one or more decimal digits.
C10_AcceptsIffQDigits ==
    wdResult # "pending" => (wdResult = "True" <=> IsQDigits(wdInput))

====
